---------------------------- MODULE Spec2Model ----------------------------
(***************************************************************************)
(* The persistent site store and ledger-backed upload pipeline of webdb:   *)
(* SiteUploader (uploader.ts), FileStorage and DemoStorage (db-chain.ts)   *)
(* and GolemDBClient (golem-db-client.ts).                                 *)
(*                                                                         *)
(* Strings that the code inspects character by character (paths, site     *)
(* ids, storage keys) are sequences of one-character strings.  An action   *)
(* is one I/O completion (an awaited promise settling) together with the   *)
(* synchronous continuation that runs up to the next await.                *)
(***************************************************************************)
EXTENDS Integers, Sequences, FiniteSets, TLC

VARIABLES
    now,          \* Date.now(), in clock units (SubSec units per second)
    backend,      \* the storage class in use: "file" | "demo" | "golem"
    mirror,       \* FileStorage: STORAGE_DIR, key -> stored JSON record
    demoStorage,  \* DemoStorage: the module-level Map, key -> DBChainEntry
    tempStorage,  \* db-chain.ts: the module-level Map, key -> DBChainEntry
    chain,        \* the ledger account: pending and mined transaction counts, hashes issued
    pc,           \* per request: the await it is suspended at
    call,         \* per request: the locals of uploadSite / uploadFiles and callees
    rd,           \* the value returned by the latest getFile / getSiteMetadata
    ncalls        \* number of upload requests started so far

vars == <<now, backend, mirror, demoStorage, tempStorage, chain, pc, call, rd, ncalls>>

-----------------------------------------------------------------------------
(* Bounds of the model *)

\* clock units per second (the code: 1000 ms)
SubSec == 2
\* entry lifetime in seconds (the code: 30 days)
TtlSec == 1
\* last clock value the model explores
MaxClock == 4
\* configured maxFileSize, in bytes
MaxFileSize == 2
\* configured maxSiteSize, in bytes
MaxSiteSize == 3
\* upload requests per behaviour
MaxCalls == 2
\* longest submitted path, in characters, when every path is enumerated
MaxPathLen == 3

(* Program constants *)

\* waitForTransaction: const maxRetries = 10
maxRetries == 10

-----------------------------------------------------------------------------
(* Strings *)

Null == <<"null">>
Truthy(x) == x # Null /\ x # <<>>

StartsWith(s, pre) ==
    Len(s) >= Len(pre) /\ SubSeq(s, 1, Len(pre)) = pre

Includes(s, sub) ==
    \E i \in 1..(Len(s) - Len(sub) + 1) : SubSeq(s, i, i + Len(sub) - 1) = sub

\* String.prototype.replace(/\\/g, '/')
ReplaceBackslashes(s) ==
    [i \in 1..Len(s) |-> IF s[i] = "\\" THEN "/" ELSE s[i]]

LastIndexOf(s, c) ==
    IF \E i \in 1..Len(s) : s[i] = c
    THEN CHOOSE i \in 1..Len(s) : s[i] = c /\ \A j \in (i+1)..Len(s) : s[j] # c
    ELSE 0

\* the part of a path after its last '/'
Basename(s) == SubSeq(s, LastIndexOf(s, "/") + 1, Len(s))

\* mime-types: extname('x.' + path).substr(1)
Extname(path) ==
    LET b == Basename(<<"x", ".">> \o path)
        d == LastIndexOf(b, ".")
    IN  IF d <= 1 THEN <<>> ELSE SubSeq(b, d + 1, Len(b))

\* mime-types lookup(path): the type registered for the extension, or false
lookup(path) ==
    LET e == Extname(path)
    IN  CASE e = <<"h","t","m","l">> -> "text/html"
          [] e = <<"h","t","m">>     -> "text/html"
          [] e = <<"c","s","s">>     -> "text/css"
          [] e = <<"s","h">>         -> "application/x-sh"
          [] OTHER                   -> "false"

-----------------------------------------------------------------------------
(* Nullable objects: <<>> is null / undefined, <<v>> is the object v *)

None == <<>>
Some(v) == <<v>>

-----------------------------------------------------------------------------
(* SiteUploader: validation *)

IdChars ==
    {"a","b","c","d","e","f","g","h","i","j","k","l","m","n","o","p","q","r",
     "s","t","u","v","w","x","y","z","0","1","2","3","4","5","6","7","8","9",
     "-","_"}

\* an uploadSchema without the pattern of siteId
uploadSchemaAnyId(siteId, files) ==
    /\ Len(siteId) >= 1
    /\ Len(siteId) <= 64
    /\ Len(files) >= 1
    /\ Len(files) <= 1000
    /\ \A i \in 1..Len(files) : Len(files[i].path) >= 1

\* uploadSchema.safeParse({ siteId, files }).success
uploadSchema(siteId, files) ==
    /\ Len(siteId) >= 1
    /\ Len(siteId) <= 64
    /\ \A i \in 1..Len(siteId) : siteId[i] \in IdChars
    /\ Len(files) >= 1
    /\ Len(files) <= 1000
    /\ \A i \in 1..Len(files) : Len(files[i].path) >= 1

\* processFile: the SiteFile, or the message of the Error it throws
processFile(fileData, t) ==
    LET p1   == ReplaceBackslashes(fileData.path)
        path == IF StartsWith(p1, <<"/">>) THEN Tail(p1) ELSE p1
        type == lookup(path)
    IN  IF Includes(path, <<".", ".">>) \/ Includes(path, <<"/", "/">>)
        THEN [err |-> "Invalid file path", file |-> None]
        ELSE IF Len(path) = 0
        THEN [err |-> "Empty file path", file |-> None]
        ELSE [err |-> "",
              file |-> Some([path |-> path,
                             content |-> fileData.content,
                             contentType |-> IF type = "false"
                                             THEN "application/octet-stream"
                                             ELSE type,
                             size |-> Len(fileData.content),
                             lastModified |-> t])]

index_html == <<"i","n","d","e","x",".","h","t","m","l">>
index_htm  == <<"i","n","d","e","x",".","h","t","m">>

suspiciousExtensions ==
    { <<"e","x","e">>, <<"b","a","t">>, <<"s","h">>, <<"p","h","p">>,
      <<"a","s","p">>, <<"j","s","p">> }

allowedHiddenFiles ==
    { <<".","h","t","a","c","c","e","s","s">>,
      <<".","w","e","l","l","-","k","n","o","w","n">> }

\* file.path.split('.').pop()
SplitPop(path) == SubSeq(path, LastIndexOf(path, ".") + 1, Len(path))

\* validateSiteStructure: "" or the message of the Error it throws
validateSiteStructure(files) ==
    IF ~ \E i \in 1..Len(files) : files[i].path \in {index_html, index_htm}
    THEN "Site must contain an index.html or index.htm file"
    ELSE IF \E i \in 1..Len(files) :
              /\ SplitPop(files[i].path) # <<>>
              /\ SplitPop(files[i].path) \in suspiciousExtensions
    THEN "File type not allowed"
    ELSE IF \E i \in 1..Len(files) :
              /\ StartsWith(files[i].path, <<".">>)
              /\ ~ \E a \in allowedHiddenFiles :
                     \/ files[i].path = a
                     \/ StartsWith(files[i].path, a \o <<"/">>)
    THEN "Hidden file not allowed"
    ELSE ""

\* the loop of uploadSite with both size comparisons inclusive
RECURSIVE uploadSiteLoopInclusive(_, _, _, _)
uploadSiteLoopInclusive(files, t, siteFiles, totalSize) ==
    IF files = <<>>
    THEN [err |-> "", siteFiles |-> siteFiles, totalSize |-> totalSize]
    ELSE LET r == processFile(Head(files), t)
         IN  IF r.err # ""
             THEN [err |-> r.err, siteFiles |-> siteFiles, totalSize |-> totalSize]
             ELSE IF r.file[1].size >= MaxFileSize
             THEN [err |-> "File exceeds maximum size",
                   siteFiles |-> siteFiles, totalSize |-> totalSize]
             ELSE IF totalSize + r.file[1].size >= MaxSiteSize
             THEN [err |-> "Site exceeds maximum size",
                   siteFiles |-> siteFiles, totalSize |-> totalSize + r.file[1].size]
             ELSE uploadSiteLoopInclusive(Tail(files), t,
                                          Append(siteFiles, r.file[1]),
                                          totalSize + r.file[1].size)

\* the loop of uploadSite over the raw files: process, size checks, push
RECURSIVE uploadSiteLoop(_, _, _, _)
uploadSiteLoop(files, t, siteFiles, totalSize) ==
    IF files = <<>>
    THEN [err |-> "", siteFiles |-> siteFiles, totalSize |-> totalSize]
    ELSE LET r == processFile(Head(files), t)
         IN  IF r.err # ""
             THEN [err |-> r.err, siteFiles |-> siteFiles, totalSize |-> totalSize]
             ELSE IF r.file[1].size > MaxFileSize
             THEN [err |-> "File exceeds maximum size",
                   siteFiles |-> siteFiles, totalSize |-> totalSize]
             ELSE IF totalSize + r.file[1].size > MaxSiteSize
             THEN [err |-> "Site exceeds maximum size",
                   siteFiles |-> siteFiles, totalSize |-> totalSize + r.file[1].size]
             ELSE uploadSiteLoop(Tail(files), t, Append(siteFiles, r.file[1]),
                                 totalSize + r.file[1].size)

-----------------------------------------------------------------------------
(* Storage keys, entries, expiry (FileStorage and DemoStorage share them) *)

generateFileKey(siteId, path) ==
    LET normalizedPath == IF StartsWith(path, <<"/">>) THEN Tail(path) ELSE path
    IN  <<"s","i","t","e",":">> \o siteId \o <<":","f","i","l","e",":">>
        \o normalizedPath

generateMetadataKey(siteId) ==
    <<"s","i","t","e",":">> \o siteId \o <<":","m","e","t","a","d","a","t","a">>

\* Math.floor(Date.now() / 1000)
Seconds(t) == t \div SubSec

\* the DBChainEntry that storeFile builds for a file
fileEntry(siteId, file, t) ==
    [key |-> generateFileKey(siteId, file.path),
     value |-> file.content,
     metadata |-> [contentType |-> file.contentType,
                   path |-> file.path,
                   siteId |-> siteId,
                   size |-> file.size,
                   lastModified |-> file.lastModified],
     btl |-> Seconds(t) + TtlSec]

\* the SiteMetadata that storeSite builds
siteMetadata(siteId, files, totalSize, t) ==
    [siteId |-> siteId,
     name |-> siteId,
     domain |-> siteId \o <<".","w","e","b","d","b",".","s","i","t","e">>,
     totalSize |-> totalSize,
     fileCount |-> Len(files),
     createdAt |-> t,
     btlExpiry |-> t + TtlSec * SubSec]

\* a character outside ASCII (e with acute accent), one UTF-16 code unit
eacute == "U+00E9"

\* the characters of site ids and domains, by character code
Alphabet ==
    <<"a","b","c","d","e","f","g","h","i","j","k","l","m","n","o","p","q","r",
      "s","t","u","v","w","x","y","z","0","1","2","3","4","5","6","7","8","9",
      "-","_",".",":","/", eacute>>

CharCode(ch) == CHOOSE i \in 1..Len(Alphabet) : Alphabet[i] = ch

EncodeString(str) == <<Len(str)>> \o [i \in 1..Len(str) |-> CharCode(str[i])]

DecodeString(v, at) == [i \in 1..v[at] |-> Alphabet[v[at + i]]]

\* new TextEncoder().encode(JSON.stringify(metadata)): the bytes of the text
\* (strings with their length, numbers and dates by value)
encodeMetadata(md) ==
    EncodeString(md.siteId) \o EncodeString(md.name) \o EncodeString(md.domain)
    \o <<md.totalSize, md.fileCount, md.createdAt, md.btlExpiry>>

\* whether JSON.parse accepts the bytes (it throws on anything else)
isMetadataJSON(v) ==
    /\ Len(v) >= 1
    /\ v[1] + 2 <= Len(v)
    /\ v[1] + v[v[1] + 2] + 3 <= Len(v)
    /\ Len(v) = v[1] + v[v[1] + 2] + v[v[1] + v[v[1] + 2] + 3] + 7
    /\ \A i \in 1..Len(v) : v[i] >= 0
    /\ \A i \in 1..(Len(v) - 4) : v[i] <= Len(Alphabet) \/ i \in {1, v[1] + 2}

\* JSON.parse(new TextDecoder().decode(entry.value))
decodeMetadata(v) ==
    LET at2 == v[1] + 2
        at3 == at2 + v[at2] + 1
        at4 == at3 + v[at3] + 1
    IN  [siteId |-> DecodeString(v, 1),
         name |-> DecodeString(v, at2),
         domain |-> DecodeString(v, at3),
         totalSize |-> v[at4],
         fileCount |-> v[at4 + 1],
         createdAt |-> v[at4 + 2],
         btlExpiry |-> v[at4 + 3]]

\* number of decimal digits of a small natural number
Digits(n) == IF n < 10 THEN 1 ELSE IF n < 100 THEN 2 ELSE 3

\* JSON.stringify(metadata).length: the keys, quotes and punctuation (91),
\* the two ISO dates (24 each) and the variable parts
JSONlength(md) ==
    Len(md.siteId) + Len(md.name) + Len(md.domain)
    + Digits(md.totalSize) + Digits(md.fileCount) + 24 + 24 + 91

\* new TextEncoder().encode(str).length: one byte for an ASCII character, two
\* for a character below U+0800
RECURSIVE Utf8Length(_)
Utf8Length(str) ==
    IF str = <<>> THEN 0
    ELSE (IF Head(str) = eacute THEN 2 ELSE 1) + Utf8Length(Tail(str))

\* new TextEncoder().encode(JSON.stringify(metadata)).length
TextEncoderLength(md) ==
    Utf8Length(md.siteId) + Utf8Length(md.name) + Utf8Length(md.domain)
    + Digits(md.totalSize) + Digits(md.fileCount) + 24 + 24 + 91

\* the DBChainEntry that storeSite builds for the metadata
metadataEntry(siteId, md, t) ==
    [key |-> generateMetadataKey(siteId),
     value |-> encodeMetadata(md),
     metadata |-> [contentType |-> "application/json",
                   path |-> <<"_","m","e","t","a","d","a","t","a">>,
                   siteId |-> siteId,
                   size |-> JSONlength(md),
                   lastModified |-> t],
     btl |-> Seconds(t) + TtlSec]

\* isExpired with the comparison off by one
isExpiredInclusive(entry, t) ==
    entry.btl > 0 /\ Seconds(t) >= entry.btl

isExpired(entry, t) ==
    entry.btl > 0 /\ Seconds(t) > entry.btl

\* what a get returns for an entry that was read
entryFile(entry) ==
    [path |-> entry.metadata.path,
     content |-> entry.value,
     contentType |-> entry.metadata.contentType,
     size |-> entry.metadata.size,
     lastModified |-> entry.metadata.lastModified]

-----------------------------------------------------------------------------
(* FileStorage: the local mirror *)

\* Array.from(entry.value), as JSON.stringify writes it
ArrayFrom(value) == [i \in 1..Len(value) |-> value[i]]

\* new Uint8Array(parsed.value)
Uint8Array(array) == [i \in 1..Len(array) |-> array[i] % 256]

\* the segments of a path between its '/' separators
RECURSIVE Split(_)
Split(s) ==
    IF ~ Includes(s, <<"/">>) THEN <<s>>
    ELSE LET i == CHOOSE j \in 1..Len(s) :
                      s[j] = "/" /\ \A k \in 1..(j - 1) : s[k] # "/"
         IN  <<SubSeq(s, 1, i - 1)>> \o Split(SubSeq(s, i + 1, Len(s)))

\* path.normalize: empty and '.' segments are dropped, '..' removes the
\* segment before it (and stays when there is none to remove)
RECURSIVE Resolve(_, _)
Resolve(segs, acc) ==
    IF segs = <<>> THEN acc
    ELSE LET h == Head(segs)
         IN  IF h = <<>> \/ h = <<".">> THEN Resolve(Tail(segs), acc)
             ELSE IF h = <<".", ".">> /\ acc # <<>>
                     /\ acc[Len(acc)] # <<".", ".">>
             THEN Resolve(Tail(segs), SubSeq(acc, 1, Len(acc) - 1))
             ELSE Resolve(Tail(segs), Append(acc, h))

RECURSIVE JoinSegs(_)
JoinSegs(segs) ==
    IF segs = <<>> THEN <<>>
    ELSE IF Len(segs) = 1 THEN segs[1]
    ELSE segs[1] \o <<"/">> \o JoinSegs(Tail(segs))

\* join(STORAGE_DIR, `${key}.json`): the file that a key names, relative to
\* STORAGE_DIR and without its .json suffix
join(key) ==
    LET json == <<".", "j", "s", "o", "n">>
        name == JoinSegs(Resolve(Split(key \o json), <<>>))
    IN  SubSeq(name, 1, Len(name) - Len(json))

\* writeFile creates the file in a directory that exists: ensureStorageDir
\* made STORAGE_DIR and nothing makes a directory inside it, so a name with a
\* '/' is a file in a missing directory and writeFile rejects.  (Names that
\* leave STORAGE_DIR through '..' are not among the inputs explored.)
writeFileOk(key) == \A name \in {join(key)} : ~ Includes(name, <<"/">>)

\* a storeLocally that leaves a record that exists as it is
storeLocallyKeep(m, key, entry) ==
    m @@ (join(key) :> [key |-> entry.key,
                        value |-> ArrayFrom(entry.value),
                        metadata |-> entry.metadata,
                        btl |-> entry.btl])

\* storeLocally: the mirror (file name -> record) after the write
storeLocally(m, key, entry) ==
    (join(key) :> [key |-> entry.key,
             value |-> ArrayFrom(entry.value),
             metadata |-> entry.metadata,
             btl |-> entry.btl]) @@ m

\* readLocally: the entry, or null when the file cannot be read
readLocally(m, key) ==
    IF join(key) \in DOMAIN m
    THEN Some([key |-> m[join(key)].key,
               value |-> Uint8Array(m[join(key)].value),
               metadata |-> m[join(key)].metadata,
               btl |-> m[join(key)].btl])
    ELSE None

\* FileStorage.getFile
getFile(m, siteId, path, t) ==
    LET entry == readLocally(m, generateFileKey(siteId, path))
    IN  IF entry = None THEN None
        ELSE IF isExpired(entry[1], t) THEN None
        ELSE Some(entryFile(entry[1]))

\* FileStorage.getSiteMetadata
getSiteMetadata(m, siteId, t) ==
    LET entry == readLocally(m, generateMetadataKey(siteId))
    IN  IF entry = None THEN None
        ELSE IF isExpired(entry[1], t) THEN None
        ELSE IF ~ isMetadataJSON(entry[1].value) THEN None
        ELSE Some(decodeMetadata(entry[1].value))

-----------------------------------------------------------------------------
(* The ledger endpoint, as GolemDBClient sees it *)

HashDigits == <<"1","2","3","4","5","6","7","8","9","a","b","c","d","e","f">>

\* the transaction hash the endpoint answers to the n-th accepted submission
TxHash(n) == <<"0", "x", HashDigits[n]>>

-----------------------------------------------------------------------------
(* Requests: the locals of one uploadSite / uploadFiles call *)

Procs == {1, 2}

\* op, siteId and raw are the call and its arguments; sends and log record
\* what the call did: its eth_sendRawTransaction requests and its storeLocally
\* calls (key, how the ledger attempt before it ended, whether writeFile
\* succeeded)
NoCall ==
    [op |-> "none", siteId |-> <<>>, raw |-> <<>>, files |-> <<>>, i |-> 0,
     totalSize |-> 0, metadata |-> None, file |-> None,
     phase |-> "none", entry |-> None, nonce |-> 0, tx |-> Null, tries |-> 0,
     txHash |-> Null, confirmed |-> FALSE, ledger |-> "none", failed |-> FALSE,
     fileResults |-> <<>>, keys |-> <<>>, indexTxHash |-> Null,
     err |-> "", out |-> None,
     sends |-> 0, log |-> <<>>]

NoRead == [op |-> "none", siteId |-> <<>>, path |-> <<>>, ret |-> None]

\* a thrown Error reaches the caller of uploadSite / uploadFiles
reject(c, message) ==
    [pc |-> "done", c |-> [c EXCEPT !.err = message]]

\* writeToGolemDB(entry): createEntity is called and its getNonce is in flight
writeToGolemDB(c, entry, phase) ==
    [pc |-> "nonce",
     c  |-> [c EXCEPT !.entry = Some(entry), !.phase = phase, !.nonce = 0,
                      !.tx = Null, !.tries = 0, !.txHash = Null,
                      !.confirmed = FALSE, !.ledger = "pending",
                      !.failed = FALSE]]

\* storeFile up to its first await
storeFile(c, file, t) ==
    writeToGolemDB(c, fileEntry(c.siteId, file, t), "file")

\* writeToGolemDB: createEntity threw; the catch returns null and the caller
\* goes on to storeLocally
writeToGolemDBCatch(c, why) ==
    [pc |-> "local", c |-> [c EXCEPT !.txHash = Null, !.ledger = why]]

\* writeToGolemDB: createEntity returned; result.entityKey is returned and the
\* caller goes on to storeLocally
writeToGolemDBReturn(c, receipt) ==
    [pc |-> "local",
     c  |-> [c EXCEPT !.txHash = c.tx, !.confirmed = receipt,
                      !.ledger = IF receipt THEN "confirmed" ELSE "timeout"]]

\* files.reduce((sum, file) => sum + file.size, 0)
RECURSIVE SumSizes(_)
SumSizes(files) ==
    IF files = <<>> THEN 0 ELSE Head(files).size + SumSizes(Tail(files))

\* storeFile's return value: txHash || key
storeFileReturn(txHash, key) == IF Truthy(txHash) THEN txHash ELSE key

\* txHash || undefined
orUndefined(txHash) == IF Truthy(txHash) THEN txHash ELSE Null

\* uploadSite's return value, built from storeSite's
uploadSiteResult(c) ==
    [siteId |-> c.siteId,
     domain |-> c.metadata[1].domain,
     files |-> c.fileResults,
     totalSize |-> c.totalSize,
     indexTxHash |-> c.indexTxHash]

\* uploadFiles' return value
uploadFilesResult(c) ==
    [siteId |-> c.siteId,
     domain |-> c.metadata[1].domain,
     files |-> [k \in 1..Len(c.files) |->
                  [path |-> c.files[k].path, size |-> c.files[k].size,
                   key |-> c.keys[k]]],
     totalSize |-> c.totalSize]

\* a mirror write threw: nothing catches it before the caller
\* a storeLocally whose error is swallowed: the caller goes on with the batch
storeLocallyIgnored(c) ==
    IF c.phase = "meta"
    THEN [pc |-> "done", c |-> [c EXCEPT !.err = "ENOENT"]]
    ELSE [pc |-> "local",
          c  |-> [c EXCEPT !.i = IF c.i < Len(c.files) THEN c.i + 1 ELSE c.i,
                           !.phase = IF c.i < Len(c.files) THEN "file" ELSE "meta",
                           !.entry = IF c.i < Len(c.files)
                                     THEN Some(fileEntry(c.siteId, c.files[c.i + 1],
                                                         c.files[c.i].lastModified))
                                     ELSE Some(metadataEntry(
                                            c.siteId,
                                            siteMetadata(c.siteId, c.files,
                                                         SumSizes(c.files),
                                                         c.files[c.i].lastModified),
                                            c.files[c.i].lastModified))]]

storeLocallyThrow(c) == reject(c, "ENOENT")

\* storeSite after storeFile(files[i]) returned
storeSiteNext(c, t) ==
    LET file == c.files[c.i]
        ret  == storeFileReturn(c.txHash, c.entry[1].key)
        c1   == [c EXCEPT
                   !.fileResults =
                       Append(@, [path |-> file.path, size |-> file.size,
                                  key |-> generateFileKey(c.siteId, file.path),
                                  txHash |-> orUndefined(ret)]),
                   !.indexTxHash =
                       IF file.path = index_html THEN orUndefined(ret) ELSE @]
    IN  IF c.i < Len(c.files)
        THEN storeFile([c1 EXCEPT !.i = c.i + 1], c.files[c.i + 1], t)
        ELSE LET md == siteMetadata(c.siteId, c.files, SumSizes(c.files), t)
             IN  writeToGolemDB([c1 EXCEPT !.metadata = Some(md)],
                                metadataEntry(c.siteId, md, t), "meta")

\* the store loop of uploadFiles after storeFile(siteFiles[i]) returned
uploadFilesNext(c, t) ==
    LET ret == storeFileReturn(c.txHash, c.entry[1].key)
        c1  == [c EXCEPT !.keys = Append(@, ret)]
    IN  IF c.i < Len(c.files)
        THEN storeFile([c1 EXCEPT !.i = c.i + 1], c.files[c.i + 1], t)
        ELSE [pc |-> "done", c |-> [c1 EXCEPT !.out = Some(uploadFilesResult(c1))]]

\* the continuation of a completed storeLocally
afterStoreLocally(c, t) ==
    IF c.phase = "meta"
    THEN [pc |-> "done", c |-> [c EXCEPT !.out = Some(uploadSiteResult(c))]]
    ELSE IF c.op = "uploadSite" THEN storeSiteNext(c, t)
    ELSE uploadFilesNext(c, t)

\* uploadSite without its existence check
alreadyExistsNever(existingMetadata) == FALSE

\* uploadSite found existingMetadata
alreadyExists(existingMetadata) == existingMetadata # None

\* storeSite that writes the metadata entry first and returns
storeSiteMetadataFirst(c, siteFiles, totalSize, t) ==
    LET md == siteMetadata(c.siteId, siteFiles, SumSizes(siteFiles), t)
    IN  writeToGolemDB([c EXCEPT !.files = siteFiles, !.totalSize = totalSize,
                                 !.i = Len(siteFiles), !.metadata = Some(md)],
                       metadataEntry(c.siteId, md, t), "meta")

\* uploadSite after validation: storeSite is called and stores the first file
storeSite(c, siteFiles, totalSize, t) ==
    storeFile([c EXCEPT !.files = siteFiles, !.totalSize = totalSize, !.i = 1],
              siteFiles[1], t)

\* uploadSite that commits the files processed before the offending one and
\* reports the error afterwards
uploadSiteInvalidAfterPrefix(c, r, t) ==
    IF r.siteFiles = <<>> THEN reject(c, r.err)
    ELSE storeSite([c EXCEPT !.err = r.err], r.siteFiles, r.totalSize, t)

\* uploadSite: a throw inside the loop over the files ends the call before
\* storeSite is reached
uploadSiteInvalid(c, r, t) == reject(c, r.err)

\* uploadSite from its call to its first suspension inside storeSite
uploadSite(c, existingMetadata, t) ==
    IF ~ uploadSchema(c.siteId, c.raw) THEN reject(c, "Invalid upload data")
    ELSE IF alreadyExists(existingMetadata) THEN reject(c, "Site already exists")
    ELSE LET r == uploadSiteLoop(c.raw, t, <<>>, 0)
         IN  IF r.err # "" THEN uploadSiteInvalid(c, r, t)
             ELSE IF validateSiteStructure(r.siteFiles) # ""
             THEN reject(c, validateSiteStructure(r.siteFiles))
             ELSE storeSite(c, r.siteFiles, r.totalSize, t)

\* uploadFiles: the head of the validation loop for raw file i, up to the
\* await of getFile; after the last file, the store loop starts
uploadFilesLoop(c, t) ==
    IF c.i > Len(c.raw)
    THEN IF c.files = <<>>
         THEN [pc |-> "done", c |-> [c EXCEPT !.out = Some(uploadFilesResult(c))]]
         ELSE storeFile([c EXCEPT !.i = 1], c.files[1], t)
    ELSE LET r == processFile(c.raw[c.i], t)
         IN  IF r.err # "" THEN reject(c, r.err)
             ELSE IF r.file[1].size > MaxFileSize
             THEN reject(c, "File exceeds maximum size")
             ELSE [pc |-> "check", c |-> [c EXCEPT !.file = r.file]]

\* uploadFiles: the rest of the loop body once getFile returned existingFile
uploadFilesChecked(c, existingFile, t) ==
    LET file      == c.file[1]
        totalSize == (IF existingFile # None
                      THEN c.totalSize - existingFile[1].size
                      ELSE c.totalSize) + file.size
    IN  IF totalSize > MaxSiteSize
        THEN reject([c EXCEPT !.totalSize = totalSize],
                    "Site would exceed maximum size")
        ELSE uploadFilesLoop([c EXCEPT !.totalSize = totalSize,
                                       !.files = Append(@, file),
                                       !.file = None,
                                       !.i = c.i + 1], t)

\* uploadFiles from its call to its first suspension
uploadFiles(c, metadata, t) ==
    IF metadata = None THEN reject(c, "Site does not exist")
    ELSE IF t > metadata[1].btlExpiry THEN reject(c, "Site has expired")
    ELSE uploadFilesLoop([c EXCEPT !.metadata = metadata,
                                   !.totalSize = metadata[1].totalSize,
                                   !.i = 1], t)

-----------------------------------------------------------------------------
(* GolemDBClient.createEntity, one await at a time *)

\* eth_getTransactionCount with the 'latest' tag: the mined transactions
eth_getTransactionCountLatest(ch) == ch.mined

\* eth_getTransactionCount, params [this.account, 'pending']: the mined
\* transactions and those accepted but not mined yet
eth_getTransactionCount(ch) == ch.pending

\* getNonce answered: on success the transaction is signed with the pending
\* count and submitted; a failed fetch or an RPC error throws
getNonce(c, ok, pending) ==
    IF ok THEN [pc |-> "send", c |-> [c EXCEPT !.nonce = pending]]
    ELSE writeToGolemDBCatch(c, "nonce error")

\* eth_sendRawTransaction answered: result.result is the hash, polling starts;
\* a failed fetch or an RPC error throws
sendRawTransaction(c, accepted, hash) ==
    IF accepted
    THEN [pc |-> "poll", c |-> [c EXCEPT !.tx = hash, !.sends = @ + 1]]
    ELSE writeToGolemDBCatch([c EXCEPT !.sends = @ + 1], "send error")

\* waitForTransaction without its retry bound: it polls until a receipt comes
waitForTransactionUnbounded(c, answer) ==
    IF answer = "receipt" THEN writeToGolemDBReturn(c, TRUE)
    ELSE [pc |-> "poll",
          c  |-> [c EXCEPT !.tries = IF @ < maxRetries THEN @ + 1 ELSE @]]

\* waitForTransaction followed by one more submission of the signed
\* transaction when no receipt came
waitForTransactionResend(c, answer) ==
    IF answer = "receipt" THEN writeToGolemDBReturn(c, TRUE)
    ELSE IF c.tries + 1 >= maxRetries
    THEN IF c.sends < 2 THEN [pc |-> "send", c |-> [c EXCEPT !.tries = 0]]
         ELSE writeToGolemDBReturn(c, FALSE)
    ELSE [pc |-> "poll", c |-> [c EXCEPT !.tries = @ + 1]]

\* waitForTransaction that gives up at the first failed receipt query
waitForTransactionFailFast(c, answer) ==
    IF answer = "receipt" THEN writeToGolemDBReturn(c, TRUE)
    ELSE IF answer = "error" \/ c.tries + 1 >= maxRetries
    THEN writeToGolemDBReturn([c EXCEPT !.failed = @ \/ answer = "error"], FALSE)
    ELSE [pc |-> "poll", c |-> [c EXCEPT !.tries = @ + 1]]

\* waitForTransaction, iteration i = c.tries: a receipt ends the wait; no
\* receipt or an error retries after the delay, and returns null after the
\* last iteration
waitForTransaction(c, answer) ==
    LET c1 == [c EXCEPT !.failed = @ \/ answer = "error"]
    IN  IF answer = "receipt" THEN writeToGolemDBReturn(c1, TRUE)
        ELSE IF c.tries + 1 >= maxRetries THEN writeToGolemDBReturn(c1, FALSE)
        ELSE [pc |-> "poll", c |-> [c1 EXCEPT !.tries = @ + 1]]

-----------------------------------------------------------------------------
(* Inputs *)

a_css   == <<"a",".","c","s","s">>
sub_css == <<"c","/","a",".","c","s","s">>
dotdot  == <<".",".","/","x">>
x_sh    == <<"x",".","s","h">>
slash_index_html == <<"/">> \o index_html

bytes1 == <<7>>
bytes2 == <<8, 9>>
bytes3 == <<1, 2, 3>>

Raw(path, content) == [path |-> path, content |-> content]

SiteA == <<"a">>

Sites == {SiteA}

\* a siteId with a character outside ASCII
SiteAccent == <<eacute>>

LedgerSites == Sites \cup {SiteAccent}

Batches ==
    { <<Raw(index_html, bytes1)>>,
      <<Raw(index_html, bytes1), Raw(a_css, bytes2)>>,
      <<Raw(index_html, bytes1), Raw(sub_css, bytes1)>>,
      <<Raw(a_css, bytes1)>>,
      <<Raw(a_css, bytes1), Raw(dotdot, bytes1)>>,
      <<Raw(index_html, bytes1), Raw(a_css, bytes3)>>,
      <<Raw(index_html, bytes2), Raw(a_css, bytes2)>>,
      <<Raw(index_html, bytes1), Raw(x_sh, bytes1)>>,
      <<Raw(a_css, bytes1), Raw(<<>>, bytes1)>>,
      <<Raw(sub_css, bytes1), Raw(index_html, bytes1)>>,
      <<>> }

\* for a single site creation, also: two raw paths that normalize to the same
\* path, and index.htm as the entry point
LedgerBatches ==
    Batches \cup
    { <<Raw(index_html, bytes1), Raw(slash_index_html, bytes2)>>,
      <<Raw(index_htm, bytes1)>>,
      <<Raw(index_htm, bytes1), Raw(index_html, bytes2)>> }

ReadPaths == {index_html, a_css, sub_css}

-----------------------------------------------------------------------------
(* Actions *)

Init ==
    /\ now = 0
    /\ backend \in {"file", "demo"}
    /\ mirror = <<>>
    /\ demoStorage = <<>>
    /\ tempStorage = <<>>
    /\ chain \in {[pending |-> 0, mined |-> 0, issued |-> 0, up |-> up] :
                    up \in IF backend = "file" THEN BOOLEAN ELSE {TRUE}}
    /\ pc = [p \in Procs |-> "idle"]
    /\ call = [p \in Procs |-> NoCall]
    /\ rd = NoRead
    /\ ncalls = 0

Step(p, r) ==
    /\ pc' = [pc EXCEPT ![p] = r.pc]
    /\ call' = [call EXCEPT ![p] = r.c]
    /\ rd' = NoRead

UploadSite(p, siteId, files) ==
    /\ backend = "file"
    /\ pc[p] \in {"idle", "done"}
    /\ ncalls < MaxCalls
    /\ ncalls' = ncalls + 1
    /\ Step(p, uploadSite([NoCall EXCEPT !.op = "uploadSite", !.siteId = siteId,
                                       !.raw = files],
                          getSiteMetadata(mirror, siteId, now), now))
    /\ UNCHANGED <<now, backend, mirror, demoStorage, tempStorage, chain>>

UploadFiles(p, siteId, files) ==
    /\ backend = "file"
    /\ pc[p] \in {"idle", "done"}
    /\ ncalls < MaxCalls
    /\ ncalls' = ncalls + 1
    /\ Step(p, uploadFiles([NoCall EXCEPT !.op = "uploadFiles", !.siteId = siteId,
                                        !.raw = files],
                           getSiteMetadata(mirror, siteId, now), now))
    /\ UNCHANGED <<now, backend, mirror, demoStorage, tempStorage, chain>>

CheckExisting(p) ==
    /\ pc[p] = "check"
    /\ Step(p, uploadFilesChecked(call[p],
                                  getFile(mirror, call[p].siteId,
                                          call[p].file[1].path, now), now))
    /\ UNCHANGED <<now, backend, mirror, demoStorage, tempStorage, chain, ncalls>>

GetNonce(p, Answers) ==
    /\ pc[p] = "nonce"
    /\ \E ok \in Answers : Step(p, getNonce(call[p], ok, eth_getTransactionCount(chain)))
    /\ UNCHANGED <<now, backend, mirror, demoStorage, tempStorage, chain, ncalls>>

SendRawTransaction(p, Answers) ==
    /\ pc[p] = "send"
    /\ \E ok \in Answers :
         LET accepted == ok /\ call[p].nonce = chain.pending
         IN  /\ Step(p, sendRawTransaction(call[p], accepted,
                                           TxHash(chain.issued + 1)))
             /\ chain' = IF accepted
                         THEN [chain EXCEPT !.pending = @ + 1,
                                            !.issued = @ + 1]
                         ELSE chain
    /\ UNCHANGED <<now, backend, mirror, demoStorage, tempStorage, ncalls>>

WaitForTransaction(p, Answers) ==
    /\ pc[p] = "poll"
    /\ \E answer \in Answers :
         /\ Step(p, waitForTransaction(call[p], answer))
         /\ chain' = IF answer = "receipt" THEN [chain EXCEPT !.mined = @ + 1]
                     ELSE chain
    /\ UNCHANGED <<now, backend, mirror, demoStorage, tempStorage, ncalls>>

StoreLocally(p) ==
    /\ pc[p] = "local"
    /\ \E entry \in {call[p].entry[1]} :
       \E ok \in {writeFileOk(entry.key)} :
       \E c \in {[call[p] EXCEPT
                    !.log = Append(@, [key |-> entry.key,
                                       ledger |-> call[p].ledger,
                                       nonce |-> call[p].nonce,
                                       ok |-> ok])]} :
       \E r \in {IF ok THEN afterStoreLocally(c, now)
                 ELSE storeLocallyThrow(c)} :
           /\ mirror' = IF ok THEN storeLocally(mirror, entry.key, entry)
                        ELSE mirror
           /\ Step(p, r)
    /\ UNCHANGED <<now, backend, demoStorage, tempStorage, chain, ncalls>>

\* The steps of a ledger attempt neither read nor write the clock or the
\* mirror, so a clock tick or a read request that arrives during one has the
\* effect it has right after it: both are taken when no request is inside a
\* ledger attempt
Quiet == \A p \in Procs : pc[p] \in {"idle", "done", "check", "local"}

GetFile(siteId, path) ==
    /\ backend = "file"
    /\ Quiet
    /\ rd' = [op |-> "getFile", siteId |-> siteId, path |-> path,
              ret |-> getFile(mirror, siteId, path, now)]
    /\ UNCHANGED <<now, backend, mirror, demoStorage, tempStorage, chain, pc, call, ncalls>>

GetSiteMetadata(siteId) ==
    /\ backend = "file"
    /\ Quiet
    /\ rd' = [op |-> "getSiteMetadata", siteId |-> siteId, path |-> <<>>,
              ret |-> getSiteMetadata(mirror, siteId, now)]
    /\ UNCHANGED <<now, backend, mirror, demoStorage, tempStorage, chain, pc, call, ncalls>>

Tick ==
    /\ now < MaxClock
    /\ Quiet
    /\ now' = now + 1
    /\ rd' = NoRead
    /\ UNCHANGED <<backend, mirror, demoStorage, tempStorage, chain, pc, call, ncalls>>

-----------------------------------------------------------------------------
(* DemoStorage: the in-memory Map, called directly with SiteFiles *)

\* demoStorage.delete(key)
MapDelete(d, key) == [k \in DOMAIN d \ {key} |-> d[k]]

\* DemoStorage.storeFile
demoStoreFile(d, siteId, file, t) ==
    LET entry == fileEntry(siteId, file, t)
    IN  (entry.key :> entry) @@ d

RECURSIVE demoStoreFiles(_, _, _, _)
demoStoreFiles(d, siteId, files, t) ==
    IF files = <<>> THEN d
    ELSE demoStoreFiles(demoStoreFile(d, siteId, Head(files), t), siteId,
                        Tail(files), t)

\* DemoStorage.storeSite
demoStoreSite(d, siteId, files, t) ==
    LET md == siteMetadata(siteId, files, SumSizes(files), t)
    IN  (generateMetadataKey(siteId) :> metadataEntry(siteId, md, t))
        @@ demoStoreFiles(d, siteId, files, t)

\* DemoStorage.getFile: the value returned and the Map afterwards
demoGetFile(d, siteId, path, t) ==
    LET key == generateFileKey(siteId, path)
    IN  IF key \notin DOMAIN d THEN [ret |-> None, storage |-> d]
        ELSE IF isExpired(d[key], t)
        THEN [ret |-> None, storage |-> MapDelete(d, key)]
        ELSE [ret |-> Some(entryFile(d[key])), storage |-> d]

\* DemoStorage.getSiteMetadata: the value returned and the Map afterwards
demoGetSiteMetadata(d, siteId, t) ==
    LET key == generateMetadataKey(siteId)
    IN  IF key \notin DOMAIN d THEN [ret |-> None, storage |-> d]
        ELSE IF isExpired(d[key], t)
        THEN [ret |-> None, storage |-> MapDelete(d, key)]
        ELSE [ret |-> Some(decodeMetadata(d[key].value)), storage |-> d]

\* the SiteFiles handed to DemoStorage
SiteFilesOf(files, t) == [k \in 1..Len(files) |-> processFile(files[k], t).file[1]]

DemoBatches ==
    { <<Raw(index_html, bytes1)>>,
      <<Raw(index_html, bytes1), Raw(a_css, bytes2)>> }

DemoStoreFile(siteId, raw) ==
    /\ backend = "demo"
    /\ ncalls < MaxCalls
    /\ ncalls' = ncalls + 1
    /\ demoStorage' = demoStoreFile(demoStorage, siteId,
                                    processFile(raw, now).file[1], now)
    /\ rd' = NoRead
    /\ UNCHANGED <<now, backend, mirror, tempStorage, chain, pc, call>>

DemoStoreSite(siteId, files) ==
    /\ backend = "demo"
    /\ ncalls < MaxCalls
    /\ ncalls' = ncalls + 1
    /\ demoStorage' = demoStoreSite(demoStorage, siteId,
                                    SiteFilesOf(files, now), now)
    /\ rd' = NoRead
    /\ UNCHANGED <<now, backend, mirror, tempStorage, chain, pc, call>>

DemoGetFile(siteId, path) ==
    /\ backend = "demo"
    /\ LET r == demoGetFile(demoStorage, siteId, path, now)
       IN  /\ rd' = [op |-> "getFile", siteId |-> siteId, path |-> path,
                     ret |-> r.ret]
           /\ demoStorage' = r.storage
    /\ UNCHANGED <<now, backend, mirror, tempStorage, chain, pc, call, ncalls>>

DemoGetSiteMetadata(siteId) ==
    /\ backend = "demo"
    /\ LET r == demoGetSiteMetadata(demoStorage, siteId, now)
       IN  /\ rd' = [op |-> "getSiteMetadata", siteId |-> siteId,
                     path |-> <<>>, ret |-> r.ret]
           /\ demoStorage' = r.storage
    /\ UNCHANGED <<now, backend, mirror, tempStorage, chain, pc, call, ncalls>>

-----------------------------------------------------------------------------
(* GolemDBStorage: a write is one eth_sendTransaction followed by
   tempStorage.set; a read looks in tempStorage and asks the ledger on a miss *)

\* the DBChainEntry of GolemDBStorage.storeFile: btl is DEFAULT_BTL itself
golemFileEntry(siteId, file, t) ==
    [fileEntry(siteId, file, t) EXCEPT !.btl = TtlSec]

\* the DBChainEntry of GolemDBStorage.storeSite for the metadata
golemMetadataEntry(siteId, md, t) ==
    [metadataEntry(siteId, md, t) EXCEPT !.btl = TtlSec]

\* GolemDBStorage.storeFile up to the await of writeToGolemDB
golemStoreFile(c, file, t) ==
    IF file.size > MaxFileSize
    THEN reject(c, "File exceeds maximum size")
    ELSE [pc |-> "ethsend",
          c  |-> [c EXCEPT !.entry = Some(golemFileEntry(c.siteId, file, t)),
                           !.phase = "file"]]

\* GolemDBStorage.storeSite after its loop: the metadata is built and written
golemStoreMetadata(c, t) ==
    LET md == siteMetadata(c.siteId, c.files, c.totalSize, t)
    IN  [pc |-> "ethsend",
         c  |-> [c EXCEPT !.metadata = Some(md),
                          !.entry = Some(golemMetadataEntry(c.siteId, md, t)),
                          !.phase = "meta"]]

\* GolemDBStorage.storeSite up to its first await
golemStoreSite(c, files, t) ==
    LET c1 == [c EXCEPT !.files = files, !.totalSize = SumSizes(files), !.i = 1]
    IN  IF SumSizes(files) > MaxSiteSize
        THEN reject(c, "Site exceeds maximum size")
        ELSE IF files = <<>> THEN golemStoreMetadata(c1, t)
        ELSE golemStoreFile(c1, files[1], t)

\* GolemDBStorage.storeSite after a writeToGolemDB resolved
golemStoreSiteNext(c, t) ==
    IF c.phase = "meta"
    THEN [pc |-> "done", c |-> [c EXCEPT !.out = c.metadata]]
    ELSE LET c1 == [c EXCEPT !.keys = Append(@, c.entry[1].key)]
         IN  IF c.i < Len(c.files)
             THEN golemStoreFile([c1 EXCEPT !.i = c.i + 1], c.files[c.i + 1], t)
             ELSE golemStoreMetadata(c1, t)

\* tempStorage.set(entry.key, entry)
tempStorageSet(m, entry) == (entry.key :> entry) @@ m

\* readFromGolemDB: tempStorage.get(key)
tempStorageGet(m, key) == IF key \in DOMAIN m THEN Some(m[key]) ELSE None

\* readFromGolemDB after its eth_call settled: a failed fetch, an RPC error
\* and an empty result give null; a result with data gives tempEntry, which
\* is undefined on this path
readFromGolemDBAnswer(tempEntry, answer) ==
    IF answer = "data" THEN tempEntry ELSE None

\* GolemDBStorage.getFile once readFromGolemDB returned
golemGetFile(entry, t) ==
    IF entry = None THEN None
    ELSE IF isExpired(entry[1], t) THEN None
    ELSE Some(entryFile(entry[1]))

\* GolemDBStorage.getSiteMetadata once readFromGolemDB returned
golemGetSiteMetadata(entry, t) ==
    IF entry = None THEN None
    ELSE IF isExpired(entry[1], t) THEN None
    ELSE IF ~ isMetadataJSON(entry[1].value) THEN None
    ELSE Some(decodeMetadata(entry[1].value))

GolemStoreSite(p, siteId, files) ==
    /\ backend = "golem"
    /\ pc[p] \in {"idle", "done"}
    /\ ncalls < MaxCalls
    /\ ncalls' = ncalls + 1
    /\ \E r \in {golemStoreSite([NoCall EXCEPT !.op = "storeSite",
                                              !.siteId = siteId],
                                SiteFilesOf(files, now), now)} :
         /\ pc' = [pc EXCEPT ![p] = r.pc]
         /\ call' = [call EXCEPT ![p] = r.c]
    /\ UNCHANGED <<now, backend, mirror, demoStorage, tempStorage, chain, rd>>

\* the answer to the eth_sendTransaction of writeToGolemDB
EthSendTransaction(p, Answers) ==
    /\ pc[p] = "ethsend"
    /\ \E ok \in Answers :
       \E r \in {IF ok THEN golemStoreSiteNext(call[p], now)
                 ELSE reject(call[p], "Golem DB write failed")} :
         /\ tempStorage' = IF ok THEN tempStorageSet(tempStorage, call[p].entry[1])
                           ELSE tempStorage
         /\ pc' = [pc EXCEPT ![p] = r.pc]
         /\ call' = [call EXCEPT ![p] = r.c]
    /\ UNCHANGED <<now, backend, mirror, demoStorage, chain, rd, ncalls>>

\* a read whose key is in tempStorage returns at once; otherwise it issues
\* eth_call and waits for the answer
GolemRead(p, op, siteId, path, key) ==
    /\ pc[p] \in {"idle", "done"}
    /\ \E tempEntry \in {tempStorageGet(tempStorage, key)} :
         IF tempEntry # None
         THEN /\ rd' = [op |-> op, siteId |-> siteId, path |-> path,
                        ret |-> IF op = "getFile"
                                THEN golemGetFile(tempEntry, now)
                                ELSE golemGetSiteMetadata(tempEntry, now)]
              /\ UNCHANGED <<pc, call>>
         ELSE /\ pc' = [pc EXCEPT ![p] = "ethcall"]
              /\ call' = [call EXCEPT ![p] = [NoCall EXCEPT !.op = op,
                                                            !.siteId = siteId,
                                                            !.file = Some(path)]]
              /\ UNCHANGED rd
    /\ UNCHANGED <<now, backend, mirror, demoStorage, tempStorage, chain, ncalls>>

GolemGetFile(p, siteId, path) ==
    /\ backend = "golem"
    /\ GolemRead(p, "getFile", siteId, path, generateFileKey(siteId, path))

GolemGetSiteMetadata(p, siteId) ==
    /\ backend = "golem"
    /\ GolemRead(p, "getSiteMetadata", siteId, <<>>, generateMetadataKey(siteId))

\* the answer to the eth_call of readFromGolemDB
EthCall(p, Answers) ==
    /\ pc[p] = "ethcall"
    /\ \E answer \in Answers :
       \E entry \in {readFromGolemDBAnswer(None, answer)} :
         rd' = [op |-> call[p].op, siteId |-> call[p].siteId,
                path |-> call[p].file[1],
                ret |-> IF call[p].op = "getFile"
                        THEN golemGetFile(entry, now)
                        ELSE golemGetSiteMetadata(entry, now)]
    /\ pc' = [pc EXCEPT ![p] = "done"]
    /\ UNCHANGED <<now, backend, mirror, demoStorage, tempStorage, chain, call, ncalls>>

-----------------------------------------------------------------------------
(* Specifications *)

\* One request at a time on either storage, with the clock and the reads.
\* The ledger endpoint is up for the whole behaviour (every transaction is
\* confirmed at the first poll) or down for the whole behaviour.
Next ==
    \/ \E s \in Sites, b \in Batches : UploadSite(1, s, b)
    \/ \E s \in Sites, b \in Batches : UploadFiles(1, s, b)
    \/ CheckExisting(1)
    \/ GetNonce(1, {chain.up})
    \/ SendRawTransaction(1, {TRUE})
    \/ WaitForTransaction(1, {"receipt"})
    \/ StoreLocally(1)
    \/ \E s \in Sites, path \in ReadPaths : GetFile(s, path)
    \/ \E s \in Sites : GetSiteMetadata(s)
    \/ \E s \in Sites, b \in DemoBatches : DemoStoreFile(s, b[Len(b)])
    \/ \E s \in Sites, b \in DemoBatches : DemoStoreSite(s, b)
    \/ \E s \in Sites, path \in ReadPaths : DemoGetFile(s, path)
    \/ \E s \in Sites : DemoGetSiteMetadata(s)
    \/ Tick

Spec == Init /\ [][Next]_vars

\* One site creation on FileStorage against a ledger endpoint that answers
\* each request in any way it can: a failed fetch or an RPC error, an accepted
\* submission, a receipt, no receipt yet.
InitLedger ==
    /\ Init
    /\ backend = "file"
    /\ chain.up

NextLedger ==
    \/ \E s \in LedgerSites, b \in LedgerBatches : ncalls = 0 /\ UploadSite(1, s, b)
    \/ GetNonce(1, BOOLEAN)
    \/ SendRawTransaction(1, BOOLEAN)
    \/ WaitForTransaction(1, {"receipt", "none", "error"})
    \/ StoreLocally(1)

SpecLedger == InitLedger /\ [][NextLedger]_vars

\* The same, when every RPC that was issued gets its answer and every
\* writeFile settles: no request stays suspended at an await forever.
SpecLedgerFair ==
    /\ SpecLedger
    /\ WF_vars(GetNonce(1, BOOLEAN))
    /\ WF_vars(SendRawTransaction(1, BOOLEAN))
    /\ WF_vars(WaitForTransaction(1, {"receipt", "none", "error"}))
    /\ WF_vars(StoreLocally(1))

\* Two site creations handled at the same time on FileStorage, sharing the
\* GolemDBClient and its account.
RaceBatches ==
    { <<Raw(index_html, bytes1)>>, <<Raw(index_html, bytes2)>> }

NextRace ==
    \/ \E p \in Procs, s \in Sites, b \in RaceBatches : UploadSite(p, s, b)
    \/ \E p \in Procs : GetNonce(p, BOOLEAN)
    \/ \E p \in Procs : SendRawTransaction(p, BOOLEAN)
    \/ \E p \in Procs : WaitForTransaction(p, {"receipt"})
    \/ \E p \in Procs : StoreLocally(p)

SpecRace == InitLedger /\ [][NextRace]_vars

\* One site creation on FileStorage whose second file has any path over the
\* characters that processFile looks at, with the ledger endpoint down.
PathChars == {"/", ".", "a", "\\"}

Paths == UNION {[1..n -> PathChars] : n \in 0..MaxPathLen}

PathBatches == {<<Raw(index_html, bytes1), Raw(path, bytes1)>> : path \in Paths}

NextPaths ==
    \/ \E s \in Sites, b \in PathBatches : ncalls = 0 /\ UploadSite(1, s, b)
    \/ GetNonce(1, {FALSE})
    \/ StoreLocally(1)

SpecPaths == InitLedger /\ [][NextPaths]_vars

\* File additions to an existing site on FileStorage.  The behaviour starts
\* in the state that uploadSite("a", [index.html: <8, 9>]) at time 0 with the
\* ledger endpoint down leaves behind.
b_css == <<"b",".","c","s","s">>

CreatedSite ==
    LET file == processFile(Raw(index_html, bytes2), 0).file[1]
        md   == siteMetadata(SiteA, <<file>>, SumSizes(<<file>>), 0)
    IN  storeLocally(storeLocally(<<>>, generateFileKey(SiteA, file.path),
                                  fileEntry(SiteA, file, 0)),
                     generateMetadataKey(SiteA), metadataEntry(SiteA, md, 0))

FileBatches ==
    { <<Raw(a_css, bytes1)>>,
      <<Raw(b_css, bytes1)>>,
      <<Raw(index_html, bytes1)>>,
      <<Raw(a_css, bytes2)>>,
      <<Raw(a_css, bytes1), Raw(b_css, bytes1)>> }

InitFiles ==
    /\ now = 0
    /\ backend = "file"
    /\ mirror = CreatedSite
    /\ demoStorage = <<>>
    /\ tempStorage = <<>>
    /\ chain = [pending |-> 0, mined |-> 0, issued |-> 0, up |-> TRUE]
    /\ pc = [p \in Procs |-> "idle"]
    /\ call = [p \in Procs |-> NoCall]
    /\ rd = NoRead
    /\ ncalls = 0

\* the siteIds that file additions are requested for: the created site, a
\* site that was never created, and two identifiers that are not well-formed
SiteB == <<"b">>
SiteSlash == <<"a", "/", "b">>
SiteDotDot == <<"/", ".", ".", "/", "s", "i", "t", "e", ":", "a">>

FileSites == {SiteA, SiteB, SiteSlash, SiteDotDot}

NextFiles ==
    \/ \E s \in FileSites, b \in FileBatches : UploadFiles(1, s, b)
    \/ CheckExisting(1)
    \/ GetNonce(1, BOOLEAN)
    \/ SendRawTransaction(1, {TRUE})
    \/ WaitForTransaction(1, {"receipt"})
    \/ StoreLocally(1)

SpecFiles == InitFiles /\ [][NextFiles]_vars

\* GolemDBStorage: one request stores sites while another reads.  Date.now()
\* is far more than DEFAULT_BTL seconds after the epoch.
GolemBatches ==
    { <<Raw(index_html, bytes1)>>,
      <<Raw(index_html, bytes1), Raw(a_css, bytes2)>>,
      <<Raw(a_css, bytes1), Raw(index_html, bytes1)>>,
      <<Raw(a_css, bytes3)>>,
      <<Raw(index_html, bytes2), Raw(a_css, bytes2)>>,
      <<>> }

InitGolem ==
    /\ now = MaxClock
    /\ backend = "golem"
    /\ mirror = <<>>
    /\ demoStorage = <<>>
    /\ tempStorage = <<>>
    /\ chain = [pending |-> 0, mined |-> 0, issued |-> 0, up |-> TRUE]
    /\ pc = [p \in Procs |-> "idle"]
    /\ call = [p \in Procs |-> NoCall]
    /\ rd = NoRead
    /\ ncalls = 0

NextGolem ==
    \/ \E s \in Sites, b \in GolemBatches : GolemStoreSite(1, s, b)
    \/ EthSendTransaction(1, BOOLEAN)
    \/ \E s \in Sites, path \in ReadPaths : GolemGetFile(2, s, path)
    \/ \E s \in Sites : GolemGetSiteMetadata(2, s)
    \/ EthCall(2, {"data", "empty", "error"})

SpecGolem == InitGolem /\ [][NextGolem]_vars

\* An upload to site "a" and an upload to site "b" handled at the same time
\* on FileStorage, sharing the GolemDBClient and its account, against a
\* ledger that answers every request: it rejects a submission only for its
\* nonce and has the receipt at the first poll.
TenantSite(p) == IF p = 1 THEN SiteA ELSE SiteB

NextTenants ==
    \/ \E p \in Procs, b \in DemoBatches : UploadSite(p, TenantSite(p), b)
    \/ \E p \in Procs : GetNonce(p, {TRUE})
    \/ \E p \in Procs : SendRawTransaction(p, {TRUE})
    \/ \E p \in Procs : WaitForTransaction(p, {"receipt"})
    \/ \E p \in Procs : StoreLocally(p)

SpecTenants == InitLedger /\ [][NextTenants]_vars

\* A site creation and file additions on FileStorage with the ledger
\* endpoint down, and reads for any siteId of a request URL: the gateway
\* passes the siteId parameter of a read or of a file addition to the store
\* as it is, and a path may contain ':'.
b_metadata == <<"b",":","m","e","t","a","d","a","t","a">>
file_x     == <<"f","i","l","e",":","x">>
x_         == <<"x">>

SiteFileB == SiteA \o <<":","f","i","l","e",":","b">>
SiteFile  == SiteA \o <<":","f","i","l","e">>

KeySites == {SiteA, SiteFileB, SiteFile}

KeyPaths == {index_html, b_metadata, file_x, x_}

KeyBatches ==
    { <<Raw(index_html, bytes1), Raw(b_metadata, bytes1)>>,
      <<Raw(index_html, bytes1), Raw(file_x, bytes1)>>,
      <<Raw(index_html, bytes1), Raw(x_, bytes1)>> }

KeyFileBatches == { <<Raw(x_, bytes1)>>, <<Raw(index_html, bytes2)>> }

NextKeys ==
    \/ \E b \in KeyBatches : ncalls = 0 /\ UploadSite(1, SiteA, b)
    \/ \E s \in KeySites, b \in KeyFileBatches : UploadFiles(1, s, b)
    \/ CheckExisting(1)
    \/ GetNonce(1, {FALSE})
    \/ StoreLocally(1)
    \/ \E s \in KeySites, path \in KeyPaths : GetFile(s, path)
    \/ \E s \in KeySites : GetSiteMetadata(s)

SpecKeys == InitLedger /\ [][NextKeys]_vars

\* The life of a site on FileStorage with the ledger endpoint down, from the
\* state that its creation at time 0 left behind: file additions, the clock,
\* reads, and a creation under the same siteId.
RecreateBatches ==
    { <<Raw(index_html, bytes1)>>,
      <<Raw(index_html, bytes1), Raw(b_css, bytes1)>> }

LateBatches == { <<Raw(a_css, bytes1)>>, <<Raw(index_html, bytes1)>> }

NextRecreate ==
    \/ \E b \in RecreateBatches : UploadSite(1, SiteA, b)
    \/ \E b \in LateBatches : UploadFiles(1, SiteA, b)
    \/ CheckExisting(1)
    \/ GetNonce(1, {FALSE})
    \/ StoreLocally(1)
    \/ \E path \in ReadPaths : GetFile(SiteA, path)
    \/ GetSiteMetadata(SiteA)
    \/ Tick

SpecRecreate == InitFiles /\ [][NextRecreate]_vars

-----------------------------------------------------------------------------
(* Properties *)

\* the messages of the errors thrown by the validation of a batch
ValidationErrors ==
    {"Invalid upload data", "Invalid file path", "Empty file path",
     "File exceeds maximum size", "Site exceeds maximum size",
     "Site would exceed maximum size",
     "Site must contain an index.html or index.htm file",
     "File type not allowed", "Hidden file not allowed"}

LedgerFailures == {"nonce error", "send error"}

\* C1: for every interleaving of concurrent createEntity calls on one client,
\* no two submitted transactions carry the same nonce (a request at "send" has
\* signed a transaction with its nonce and handed it to eth_sendRawTransaction).
C1_NoSharedNonce ==
    \A p, q \in Procs :
        (p # q /\ pc[p] = "send" /\ pc[q] = "send")
            => call[p].nonce # call[q].nonce

\* what a site creation that reached storeSite has to write, in order
ExpectedKeys(c) ==
    [k \in 1..Len(c.files) + 1 |->
        IF k <= Len(c.files) THEN generateFileKey(c.siteId, c.files[k].path)
        ELSE generateMetadataKey(c.siteId)]

\* the batch passes the validation of uploadSite
Accepted(siteId, raw, t) ==
    /\ uploadSchema(siteId, raw)
    /\ uploadSiteLoop(raw, t, <<>>, 0).err = ""
    /\ validateSiteStructure(uploadSiteLoop(raw, t, <<>>, 0).siteFiles) = ""

RECURSIVE SumLen(_)
SumLen(raw) ==
    IF raw = <<>> THEN 0 ELSE Len(Head(raw).content) + SumLen(Tail(raw))

\* C2: whatever the outcome of each ledger attempt, a site creation that
\* reached the store returns successfully, having written every file and the
\* metadata to the mirror exactly once each, in order.
C2_StoreSucceedsWhateverLedger ==
    \A p \in Procs :
        LET c == call[p]
        IN  (pc[p] = "done" /\ c.op = "uploadSite" /\ c.entry # None)
                => /\ c.err = ""
                   /\ Len(c.log) = Len(c.files) + 1
                   /\ \A k \in 1..Len(c.log) :
                        /\ c.log[k].key = ExpectedKeys(c)[k]
                        /\ c.log[k].ok
                        /\ c.log[k].key \in DOMAIN mirror

\* C3: a call rejected for a validation reason has submitted nothing to the
\* ledger and written nothing to the mirror, and the step that rejects it
\* leaves the mirror and the ledger as they were, so every path of the batch
\* reads as it did before.
C3_Rejects(p) ==
    /\ pc'[p] = "done"
    /\ call'[p].err \in ValidationErrors
    /\ call'[p] # call[p]

C3_RejectedBatchWritesNothing ==
    [][\A p \in Procs :
         C3_Rejects(p)
            => /\ call'[p].log = <<>>
               /\ call'[p].sends = 0
               /\ call'[p].entry = None
               /\ mirror' = mirror
               /\ chain' = chain
               /\ \A k \in 1..Len(call'[p].raw) :
                    getFile(mirror', call'[p].siteId, call'[p].raw[k].path, now')
                        = getFile(mirror, call'[p].siteId,
                                  call'[p].raw[k].path, now)]_vars

C3_Witness ==
    /\ pc[1] = "done"
    /\ call[1].op = "uploadSite"
    /\ call[1].err = "Invalid file path"
    /\ Len(call[1].raw) = 2
    /\ processFile(call[1].raw[1], now).err = ""

\* C4 (as stated): a site creation called while the metadata of its siteId is
\* visible fails with 'Site already exists' and leaves the mirror unchanged.
C4_IsSecondCreation ==
    /\ ncalls' = ncalls + 1
    /\ call'[1].op = "uploadSite"
    /\ getSiteMetadata(mirror, call'[1].siteId, now) # None

C4_SecondCreationConflicts ==
    [][C4_IsSecondCreation
          => /\ pc'[1] = "done"
             /\ call'[1].err = "Site already exists"
             /\ mirror' = mirror]_vars

\* C4 (amended): a site creation called while the metadata of its siteId is
\* visible fails, with 'Site already exists' when its arguments pass the
\* schema check and with 'Invalid upload data' when they do not; in both
\* cases nothing is submitted or written and the mirror is unchanged.
C4_SecondCreationFails ==
    [][C4_IsSecondCreation
          => /\ pc'[1] = "done"
             /\ call'[1].err =
                    IF uploadSchema(call'[1].siteId, call'[1].raw)
                    THEN "Site already exists" ELSE "Invalid upload data"
             /\ call'[1].log = <<>>
             /\ call'[1].sends = 0
             /\ mirror' = mirror
             /\ chain' = chain]_vars

C4_Witness ==
    /\ pc[1] = "done"
    /\ call[1].op = "uploadSite"
    /\ call[1].err = "Site already exists"
    /\ generateMetadataKey(call[1].siteId) \in DOMAIN mirror

\* C5: of the site creations running concurrently for one siteId, at most one
\* writes the site's metadata to the mirror.
C5_MetadataWriters(s) ==
    {p \in Procs :
        \E k \in 1..Len(call[p].log) :
            /\ call[p].log[k].key = generateMetadataKey(s)
            /\ call[p].log[k].ok}

C5_OneMetadataWriter ==
    \A s \in Sites : Cardinality(C5_MetadataWriters(s)) <= 1

\* C6: a site creation whose batch passes validation on an unused siteId
\* succeeds, and getSiteMetadata right after it returns the batch length as
\* fileCount and the sum of the byte lengths as totalSize.
C6_MetadataTotals ==
    \A p \in Procs :
        LET c  == call[p]
            md == getSiteMetadata(mirror, c.siteId, now)
        IN  (pc[p] = "done" /\ c.op = "uploadSite"
                /\ Accepted(c.siteId, c.raw, now))
                => /\ c.err = ""
                   /\ md # None
                   /\ md[1].fileCount = Len(c.raw)
                   /\ md[1].totalSize = SumLen(c.raw)

\* C7: after the upload of a batch accepted by validation, getFile returns
\* for each of its files the submitted bytes, their length as size and the
\* content type of the path's extension.
C7_ContentType(path) ==
    IF lookup(path) = "false" THEN "application/octet-stream" ELSE lookup(path)

C7_RoundTrip ==
    \A p \in Procs :
        LET c == call[p]
        IN  (pc[p] = "done" /\ c.op = "uploadSite"
                /\ Accepted(c.siteId, c.raw, now))
                => \A k \in 1..Len(c.raw) :
                     LET f == getFile(mirror, c.siteId, c.raw[k].path, now)
                     IN  /\ f # None
                         /\ f[1].content = c.raw[k].content
                         /\ f[1].size = Len(c.raw[k].content)
                         /\ f[1].contentType = C7_ContentType(c.raw[k].path)

\* C8: the store and the key a read looks at, and what the read finds
C8_Store == IF backend = "file" THEN mirror ELSE demoStorage

C8_Key ==
    IF rd'.op = "getFile" THEN generateFileKey(rd'.siteId, rd'.path)
    ELSE generateMetadataKey(rd'.siteId)

C8_Past == C8_Key \in DOMAIN C8_Store /\ Seconds(now) > C8_Store[C8_Key].btl

C8_Answer ==
    /\ rd'.ret = None <=> (C8_Key \notin DOMAIN C8_Store \/ C8_Past)
    /\ (rd'.ret # None /\ rd'.op = "getFile")
          => /\ rd'.ret[1].path = C8_Store[C8_Key].metadata.path
             /\ rd'.ret[1].content = C8_Store[C8_Key].value
    /\ (rd'.ret # None /\ rd'.op = "getSiteMetadata")
          => rd'.ret[1].siteId = rd'.siteId

\* C8 (as stated): getFile and getSiteMetadata return absent for an entry
\* whose expiry second is past and return the entry otherwise, and the read
\* leaves the stored records unchanged.
C8_ReadHidesNeverErases ==
    [][rd'.op # "none"
          => /\ C8_Answer
             /\ mirror' = mirror
             /\ demoStorage' = demoStorage]_vars

\* C8 (amended): getFile and getSiteMetadata return absent for an entry whose
\* expiry second is past and return the entry otherwise; a FileStorage read
\* leaves the mirror unchanged, and a DemoStorage read erases the record it
\* was asked for when that record is expired and changes nothing otherwise.
C8_ReadHidesFileErasesDemo ==
    [][rd'.op # "none"
          => /\ C8_Answer
             /\ mirror' = mirror
             /\ demoStorage' = IF backend = "demo" /\ C8_Past
                               THEN MapDelete(demoStorage, C8_Key)
                               ELSE demoStorage]_vars

C8_Witness ==
    /\ backend = "file"
    /\ rd.op = "getFile"
    /\ rd.ret = None
    /\ generateFileKey(rd.siteId, rd.path) \in DOMAIN mirror

\* C9: once the metadata of a site is expired, getFile returns absent for
\* every path of the site.
C9_ExpiredSiteHidesFiles ==
    \A s \in Sites :
        (/\ backend = "file"
         /\ rd.op = "getFile"
         /\ rd.siteId = s
         /\ generateMetadataKey(s) \in DOMAIN mirror
         /\ Seconds(now) > mirror[generateMetadataKey(s)].btl)
            => rd.ret = None

\* C10: in the result of a site creation, the txHash of every file whose
\* ledger write failed is absent, and so is indexTxHash when the ledger write
\* of index.html failed.
C10_NoLedgerReference ==
    \A p \in Procs :
        LET c == call[p]
        IN  (pc[p] = "done" /\ c.op = "uploadSite" /\ c.err = "")
                => \A k \in 1..Len(c.out[1].files) :
                     c.log[k].ledger \in LedgerFailures
                        => /\ c.out[1].files[k].txHash = Null
                           /\ c.files[k].path = index_html
                                => c.out[1].indexTxHash = Null

\* C11: every path that processFile accepted, and every path under which a
\* file entry is in the mirror, is non-empty, has no '..' and no empty
\* segment (no leading '/', no trailing '/', no '//').
WellFormedPath(path) ==
    /\ Len(path) > 0
    /\ ~ Includes(path, <<".", ".">>)
    /\ ~ Includes(path, <<"/", "/">>)
    /\ path[1] # "/"
    /\ path[Len(path)] # "/"

C11_PathsWellFormed ==
    /\ \A p \in Procs :
         \A k \in 1..Len(call[p].files) : WellFormedPath(call[p].files[k].path)
    /\ \A key \in DOMAIN mirror :
         key # generateMetadataKey(mirror[key].metadata.siteId)
            => WellFormedPath(mirror[key].metadata.path)

\* the sum of the sizes of the file entries of site s in the mirror
FileKeys(s) ==
    {key \in DOMAIN mirror :
        /\ mirror[key].metadata.siteId = s
        /\ key # generateMetadataKey(s)}

RECURSIVE SumEntries(_, _)
SumEntries(m, keys) ==
    IF keys = {} THEN 0
    ELSE LET key == CHOOSE k \in keys : TRUE
         IN  m[key].metadata.size + SumEntries(m, keys \ {key})

\* C12: the sizes of the file entries that a site has in the mirror never
\* add up to more than the configured maximum site size.
C12_QuotaHolds ==
    \A s \in Sites : SumEntries(mirror, FileKeys(s)) <= MaxSiteSize

\* C13: when uploadFiles replaces one existing file by a smaller one, the
\* totalSize it returns and the totalSize of the site's metadata afterwards
\* (from which the next uploadFiles starts) are both the site's totalSize
\* before the call minus (old size - new size).
C13_Replaces ==
    /\ pc[1] = "local"
    /\ pc'[1] = "done"
    /\ call'[1].op = "uploadFiles"
    /\ call'[1].err = ""
    /\ Len(call'[1].raw) = 1
    /\ getFile(mirror, call'[1].siteId, call'[1].raw[1].path, now) # None
    /\ Len(call'[1].raw[1].content)
          < getFile(mirror, call'[1].siteId, call'[1].raw[1].path, now)[1].size

C13_TotalSizeReducedByDelta ==
    [][C13_Replaces
          => LET c      == call'[1]
                 old    == getFile(mirror, c.siteId, c.raw[1].path, now)[1].size
                 new    == Len(c.raw[1].content)
                 before == getSiteMetadata(mirror, c.siteId, now)[1].totalSize
                 after  == getSiteMetadata(mirror', c.siteId, now')[1].totalSize
             IN  /\ c.out[1].totalSize = before - (old - new)
                 /\ after = before - (old - new)]_vars

\* the messages of the errors thrown by the existence checks of uploadFiles
ConflictErrors == {"Site does not exist", "Site has expired"}

\* C14: uploadFiles for a siteId other than one whose creation completed
\* (here: site "a") is rejected with a conflict error and writes no file.
C14_OnlyCreatedSiteAcceptsFiles ==
    \A p \in Procs :
        (call[p].op = "uploadFiles" /\ call[p].siteId # SiteA)
            => /\ pc[p] = "done"
               /\ call[p].err \in ConflictErrors
               /\ call[p].log = <<>>
               /\ call[p].sends = 0

\* C15: no file entry in the mirror has a path with a denylisted extension
\* or a path that begins with '.' without being allow-listed.
Forbidden(path) ==
    \/ SplitPop(path) # <<>> /\ SplitPop(path) \in suspiciousExtensions
    \/ /\ StartsWith(path, <<".">>)
       /\ ~ \E a \in allowedHiddenFiles :
              path = a \/ StartsWith(path, a \o <<"/">>)

C15_NoForbiddenFileStored ==
    \A name \in DOMAIN mirror :
        mirror[name].key # generateMetadataKey(mirror[name].metadata.siteId)
            => ~ Forbidden(mirror[name].metadata.path)

\* C16: once a mirror write of a batch has failed, the call has ended with
\* that error, the failed write is the last thing the call did (no later
\* entry was submitted to the ledger or written to the mirror), and a site
\* creation has written no metadata and returned no result.
C16_Failed(c) == \E k \in 1..Len(c.log) : ~ c.log[k].ok

C16_MirrorFailureIsFatal ==
    \A p \in Procs :
        LET c == call[p]
        IN  C16_Failed(c)
                => /\ pc[p] = "done"
                   /\ c.err = "ENOENT"
                   /\ c.out = None
                   /\ ~ c.log[Len(c.log)].ok
                   /\ \A k \in 1..(Len(c.log) - 1) : c.log[k].ok
                   /\ c.phase = "file"
                   /\ c.i = Len(c.log)
                   /\ c.entry[1].key = c.log[Len(c.log)].key
                   /\ c.sends <= Len(c.log)
                   /\ \A k \in (Len(c.log) + 1)..(Len(c.files) + 1) :
                        join(ExpectedKeys(c)[k]) \notin DOMAIN mirror
                   /\ getSiteMetadata(mirror, c.siteId, now) = None

C16_Witness ==
    /\ pc[1] = "done"
    /\ call[1].err = "ENOENT"
    /\ Len(call[1].log) = 1
    /\ Len(call[1].files) = 2
    /\ call[1].sends = 1

\* C17: a site creation that ends with a failed mirror write after it has
\* committed files returns a result that lists exactly the committed files.
C17_PartialResult ==
    \A p \in Procs :
        LET c == call[p]
        IN  (pc[p] = "done" /\ C16_Failed(c) /\ Len(c.log) > 1)
                => /\ c.out # None
                   /\ Len(c.out[1].files) = Len(c.log) - 1
                   /\ \A k \in 1..(Len(c.log) - 1) :
                        c.out[1].files[k].path = c.files[k].path

\* C18: waitForTransaction issues at most maxRetries receipt queries (the
\* query in flight is number tries + 1), every query without a receipt is
\* counted, the first receipt ends the wait, and the wait gives up only after
\* maxRetries queries; so, when every RPC is answered, each ledger attempt
\* ends and each site creation that started completes.
C18_PollingBounded ==
    /\ [](\A p \in Procs :
            /\ pc[p] = "poll" => call[p].tries < maxRetries
            /\ call[p].ledger = "timeout" => call[p].tries = maxRetries - 1)
    /\ [][\A p \in Procs :
            pc[p] = "poll"
               => \/ pc'[p] = "poll" /\ call'[p].tries = call[p].tries + 1
                  \/ pc'[p] = "local" /\ call'[p].ledger \in {"confirmed", "timeout"}
                  \/ call'[p] = call[p]]_vars
    /\ \A p \in Procs :
         (pc[p] \in {"nonce", "send", "poll"}) ~> (pc[p] \in {"local", "done"})
    /\ \A p \in Procs : (pc[p] # "idle") ~> (pc[p] = "done")

C18_Witness ==
    /\ pc[1] = "local"
    /\ call[1].ledger = "timeout"
    /\ call[1].tries = maxRetries - 1

\* C19: in the result of a site creation, a file carries a ledger reference
\* only if the receipt of its transaction was observed.
C19_ReferenceOnlyIfConfirmed ==
    \A p \in Procs :
        LET c == call[p]
        IN  (pc[p] = "done" /\ c.op = "uploadSite" /\ c.err = "")
                => \A k \in 1..Len(c.out[1].files) :
                     c.out[1].files[k].txHash # Null
                        => c.log[k].ledger = "confirmed"

\* C20: a read never waits for the ledger: no getFile or getSiteMetadata
\* request is suspended at a ledger RPC.
C20_ReadsNeverWaitForLedger ==
    \A p \in Procs :
        call[p].op \in {"getFile", "getSiteMetadata"} => pc[p] # "ethcall"

\* C21: when a site creation has written the metadata, its totalSize is the
\* sum of the sizes of the file entries that the mirror holds for the site
\* and its fileCount is the number of those entries.
C21_MetadataMatchesEntries ==
    \A p \in Procs :
        LET c == call[p]
        IN  (pc[p] = "done" /\ c.op = "uploadSite" /\ c.out # None)
                => /\ c.metadata[1].totalSize
                        = SumEntries(mirror, FileKeys(c.siteId))
                   /\ c.metadata[1].fileCount
                        = Cardinality(FileKeys(c.siteId))

\* the step writes the mirror file of key k
C22_Writes(k) ==
    /\ join(k) \in DOMAIN mirror'
    /\ join(k) \notin DOMAIN mirror \/ mirror'[join(k)] # mirror[join(k)]

\* the step is the last one of a site creation by request p, which returns
C22_Completes(p) ==
    /\ call[p].op = "uploadSite"
    /\ pc[p] # "done"
    /\ pc'[p] = "done"
    /\ call'[p].err = ""

C23_Submitted == {"send error", "confirmed", "timeout"}

\* C23: each createEntity call submits its signed transaction at most once:
\* the submissions of a request are one per finished attempt that got a
\* nonce, plus one when the running attempt is past its submission; an
\* attempt whose nonce fetch failed submitted nothing, and a submission is
\* issued only right after the nonce was fetched.
C23_SubmittedAtMostOnce ==
    /\ [](\A p \in Procs :
            LET c == call[p]
            IN  c.sends
                  = Cardinality({k \in 1..Len(c.log) :
                                    c.log[k].ledger \in C23_Submitted})
                    + (IF \/ pc[p] = "poll"
                          \/ pc[p] = "local" /\ c.ledger \in C23_Submitted
                       THEN 1 ELSE 0))
    /\ [][\A p \in Procs :
            /\ (pc'[p] = "send" /\ pc[p] # "send") => pc[p] = "nonce"
            /\ call'[p].sends # call[p].sends
                 => pc[p] = "send" /\ call'[p].sends = call[p].sends + 1]_vars

C23_Witness ==
    /\ pc[1] = "done"
    /\ call[1].err = ""
    /\ call[1].sends = 2
    /\ \E k \in 1..Len(call[1].log) : call[1].log[k].ledger = "timeout"
    /\ \E k \in 1..Len(call[1].log) : call[1].log[k].ledger = "send error"
    /\ \E k \in 1..Len(call[1].log) : call[1].log[k].ledger = "nonce error"

\* the outcomes of a ledger attempt whose transaction the ledger accepted
C24_AcceptedOutcomes == {"confirmed", "timeout"}

\* the running attempt of request p has signed its transaction
C24_Signed(p) ==
    \/ pc[p] \in {"send", "poll"}
    \/ pc[p] = "local" /\ call[p].ledger \in C23_Submitted

\* C24: the nonce of a transaction is the pending count fetched right before
\* it is signed and stays with it; and of two attempts made one after the
\* other, the later one never uses the nonce of an earlier one that the
\* ledger accepted, mined or not.
C24_SequentialNoncesDiffer ==
    /\ [][\A p \in Procs :
            /\ (pc[p] = "nonce" /\ pc'[p] = "send")
                  => call'[p].nonce = chain.pending
            /\ (pc[p] \in {"send", "poll"} /\ pc'[p] # "done")
                  => call'[p].nonce = call[p].nonce]_vars
    /\ [](\A p \in Procs :
            LET c == call[p]
            IN  \A i \in 1..Len(c.log) :
                    c.log[i].ledger \in C24_AcceptedOutcomes
                       => /\ \A j \in (i + 1)..Len(c.log) :
                               c.log[j].ledger \in C23_Submitted
                                  => c.log[j].nonce # c.log[i].nonce
                          /\ C24_Signed(p) => c.nonce # c.log[i].nonce)

C24_Witness ==
    /\ Len(call[1].log) = 2
    /\ call[1].log[1].ledger = "timeout"
    /\ call[1].log[2].ledger = "confirmed"
    /\ call[1].log[2].nonce = call[1].log[1].nonce + 1
    /\ chain.mined < chain.pending

\* C25: whenever getSiteMetadata returns the metadata of a site, getFile
\* returns its entry point, index.html or index.htm.
C25_VisibleSiteHasEntryPoint ==
    \A s \in Sites :
        getSiteMetadata(mirror, s, now) # None
            => \/ getFile(mirror, s, index_html, now) # None
               \/ getFile(mirror, s, index_htm, now) # None

\* the entry point of a batch: index.html, or index.htm when there is no
\* index.html
C26_EntryPoint(files) ==
    IF \E k \in 1..Len(files) : files[k].path = index_html
    THEN index_html ELSE index_htm

\* the position of the file that is stored last under the entry point's path
C26_EntryIndex(files) ==
    CHOOSE k \in 1..Len(files) :
        /\ files[k].path = C26_EntryPoint(files)
        /\ \A j \in (k + 1)..Len(files) : files[j].path # C26_EntryPoint(files)

\* C26: the indexTxHash that a site creation returns is the transaction hash
\* of the confirmed ledger write of the batch's entry point, and is absent
\* when that ledger write failed.
C26_IndexTxHashOfEntryPoint ==
    \A p \in Procs :
        LET c == call[p]
            k == C26_EntryIndex(c.files)
        IN  (pc[p] = "done" /\ c.op = "uploadSite" /\ c.out # None)
                => /\ c.log[k].ledger = "confirmed"
                        => /\ c.out[1].indexTxHash # Null
                           /\ c.out[1].indexTxHash = c.out[1].files[k].txHash
                   /\ c.log[k].ledger \in LedgerFailures
                        => c.out[1].indexTxHash = Null

\* C27: the result of a successful uploadSite or uploadFiles has one item per
\* file of the batch, with its normalized path and its size, and getFile
\* returns each listed file, with the listed size and the submitted bytes.
C27_ResultFilesReadable ==
    \A p \in Procs :
        LET c == call[p]
        IN  (pc[p] = "done" /\ c.op \in {"uploadSite", "uploadFiles"}
                /\ c.out # None)
                => /\ Len(c.out[1].files) = Len(c.raw)
                   /\ \A k \in 1..Len(c.raw) :
                        LET item == c.out[1].files[k]
                            file == getFile(mirror, c.siteId, item.path, now)
                        IN  /\ item.path = processFile(c.raw[k], now).file[1].path
                            /\ item.size = Len(c.raw[k].content)
                            /\ file # None
                            /\ file[1].size = item.size
                            /\ file[1].content = c.raw[k].content

\* C28: while an upload to another site runs, the entries of site "a" in the
\* mirror are written by the upload to "a" only, and that upload returns what
\* it returns when it runs alone on this ledger: every file with the hash of
\* its confirmed transaction.
C28_TenantsIndependent ==
    /\ [][\A key \in DOMAIN mirror' :
            (/\ mirror'[key].metadata.siteId = SiteA
             /\ key \notin DOMAIN mirror \/ mirror'[key] # mirror[key])
                => pc[1] = "local" /\ pc'[1] # "local"]_vars
    /\ [](LET c == call[1]
          IN  (pc[1] = "done" /\ c.op = "uploadSite" /\ c.out # None)
                 => \A k \in 1..Len(c.out[1].files) :
                      /\ c.log[k].ledger = "confirmed"
                      /\ c.out[1].files[k].txHash
                            \in {TxHash(n) : n \in 1..chain.issued})

\* C29: a receipt query that fails on an attempt before the last one counts
\* as one attempt and the wait goes on; a receipt that arrives afterwards ends
\* the wait as the confirmation of the transaction.
C29_FailedQueryIsRetried ==
    /\ [][\A p \in Procs :
            (pc[p] = "poll" /\ ~ call[p].failed /\ call'[p].failed
                /\ call[p].tries < maxRetries - 1)
               => /\ pc'[p] = "poll"
                  /\ call'[p].tries = call[p].tries + 1
                  /\ call'[p].tx = call[p].tx]_vars
    /\ [][\A p \in Procs :
            (pc[p] = "poll" /\ call[p].failed /\ chain'.mined # chain.mined)
               => /\ pc'[p] = "local"
                  /\ call'[p].ledger = "confirmed"
                  /\ call'[p].txHash = call[p].tx]_vars
    /\ [](\A p \in Procs :
            (call[p].failed /\ call[p].ledger = "timeout")
               => call[p].tries = maxRetries - 1)

C29_Witness ==
    /\ pc[1] = "local"
    /\ call[1].failed
    /\ call[1].ledger = "confirmed"
    /\ call[1].tries = maxRetries - 1

\* the byte length of raw file k and the running total after adding it
C30_Size(raw, k) == Len(raw[k].content)

C30_Total(raw, k) == SumLen(SubSeq(raw, 1, k))

\* the first file of the batch that breaks a size limit, or 0
C30_FirstOver(raw) ==
    IF \E k \in 1..Len(raw) :
          C30_Size(raw, k) > MaxFileSize \/ C30_Total(raw, k) > MaxSiteSize
    THEN CHOOSE k \in 1..Len(raw) :
            /\ C30_Size(raw, k) > MaxFileSize \/ C30_Total(raw, k) > MaxSiteSize
            /\ \A j \in 1..(k - 1) :
                 /\ C30_Size(raw, j) <= MaxFileSize
                 /\ C30_Total(raw, j) <= MaxSiteSize
    ELSE 0

C31_Updates(p) ==
    /\ pc[p] = "local"
    /\ call[p].op = "uploadFiles"
    /\ Len(call'[p].log) = Len(call[p].log) + 1
    /\ call'[p].log[Len(call'[p].log)].ok
    /\ getFile(mirror, call[p].siteId, call[p].entry[1].metadata.path, now) # None

\* C31: when uploadFiles writes a path that exists, getFile returns for that
\* path the content submitted, its length as size and the content type of
\* the path, and the records of the mirror for the site's metadata and for
\* every path that is not in the batch are what they were.
C31_UpdateReplacesOnlyItsEntry ==
    [][\A p \in Procs :
         C31_Updates(p)
            => LET c == call[p]
                   f == getFile(mirror', c.siteId, c.raw[c.i].path, now')
               IN  /\ f # None
                   /\ f[1].content = c.raw[c.i].content
                   /\ f[1].size = Len(c.raw[c.i].content)
                   /\ f[1].contentType = C7_ContentType(c.raw[c.i].path)
                   /\ DOMAIN mirror' = DOMAIN mirror
                   /\ \A name \in DOMAIN mirror :
                        (\A k \in 1..Len(c.files) :
                            mirror[name].metadata.path # c.files[k].path)
                           => mirror'[name] = mirror[name]]_vars

C31_Witness ==
    /\ pc[1] = "done"
    /\ call[1].op = "uploadFiles"
    /\ call[1].siteId = SiteA
    /\ call[1].err = ""
    /\ call[1].raw = <<Raw(index_html, bytes1)>>
    /\ getFile(mirror, SiteA, index_html, now) # None
    /\ getFile(mirror, SiteA, index_html, now)[1].content = bytes1
    /\ getSiteMetadata(mirror, SiteA, now) = getSiteMetadata(CreatedSite, SiteA, now)

\* the byte length of the stored value of a record of the mirror: for a
\* metadata record, that of the UTF-8 text of the metadata it holds
C32_ByteLength(e) ==
    IF e.key = generateMetadataKey(e.metadata.siteId)
    THEN TextEncoderLength(decodeMetadata(Uint8Array(e.value)))
    ELSE Len(Uint8Array(e.value))

\* C32: the recorded size of every record in the mirror, of a file or of a
\* site's metadata, is the byte length of the record's stored value.
C32_SizeIsByteLength ==
    \A name \in DOMAIN mirror :
        mirror[name].metadata.size = C32_ByteLength(mirror[name])

C32_Witness ==
    /\ pc[1] = "done"
    /\ call[1].op = "uploadSite"
    /\ call[1].out # None
    /\ Len(call[1].files) = 2
    /\ join(generateMetadataKey(SiteA)) \in DOMAIN mirror
    /\ join(generateFileKey(SiteA, a_css)) \in DOMAIN mirror
    /\ mirror[join(generateFileKey(SiteA, a_css))].metadata.size = 2

\* the record that the last read looked up, if there is one
C33_Found ==
    readLocally(mirror, IF rd.op = "getFile"
                        THEN generateFileKey(rd.siteId, rd.path)
                        ELSE generateMetadataKey(rd.siteId))

\* C33: the file keys of two different (siteId, path) pairs differ, the
\* metadata key of a siteId is the file key of no (siteId, path), and the
\* record that a read looks up was stored for the siteId of the read: for
\* getFile under the path of the read, for getSiteMetadata as metadata.
C33_KeysInjective ==
    /\ \A s1 \in KeySites, s2 \in KeySites, p1 \in KeyPaths, p2 \in KeyPaths :
         generateFileKey(s1, p1) = generateFileKey(s2, p2)
            => s1 = s2 /\ p1 = p2
    /\ \A s1 \in KeySites, s2 \in KeySites, p2 \in KeyPaths :
         generateMetadataKey(s1) # generateFileKey(s2, p2)
    /\ (rd.op # "none" /\ C33_Found # None)
          => /\ C33_Found[1].metadata.siteId = rd.siteId
             /\ rd.op = "getFile" => C33_Found[1].metadata.path = rd.path
             /\ rd.op = "getSiteMetadata"
                   => C33_Found[1].metadata.contentType = "application/json"

\* C34: once a site has been created again under the siteId of an expired
\* site, a file that getFile returns for that siteId is a file of the new
\* batch, with the content of the new batch.
C34_RecreatedSiteHasOnlyNewFiles ==
    \A p \in Procs :
        LET c == call[p]
        IN  (/\ pc[p] = "done"
             /\ c.op = "uploadSite"
             /\ c.out # None
             /\ rd.op = "getFile"
             /\ rd.siteId = c.siteId
             /\ rd.ret # None)
                => \E k \in 1..Len(c.files) :
                     /\ c.files[k].path = rd.ret[1].path
                     /\ c.files[k].content = rd.ret[1].content

\* C35: in the result of uploadFiles the key of each file is the storage key
\* of the file, site:<siteId>:file:<path>, whatever the outcome of the file's
\* ledger write.
C35_ResultKeyIsStorageKey ==
    \A p \in Procs :
        LET c == call[p]
        IN  (pc[p] = "done" /\ c.op = "uploadFiles" /\ c.out # None)
                => \A k \in 1..Len(c.out[1].files) :
                     c.out[1].files[k].key
                        = generateFileKey(c.siteId, c.out[1].files[k].path)

\* the file that GolemDBStorage holds under the key of the read, as
\* FileStorage and DemoStorage build its entry when it is stored at time t
C36_Entry(t) ==
    LET e == tempStorage[generateFileKey(rd'.siteId, rd'.path)]
    IN  fileEntry(e.metadata.siteId, entryFile(e), t)

\* C36: a getFile of GolemDBStorage for a file that was just stored returns
\* what getFile of FileStorage and getFile of DemoStorage return for the same
\* file stored at the same time: the file.
C36_StoresEquivalent ==
    [][(/\ backend = "golem"
        /\ rd' # rd
        /\ rd'.op = "getFile"
        /\ generateFileKey(rd'.siteId, rd'.path) \in DOMAIN tempStorage)
          => /\ rd'.ret = getFile(storeLocally(<<>>, C36_Entry(now).key,
                                               C36_Entry(now)),
                                  rd'.siteId, rd'.path, now)
             /\ rd'.ret = demoGetFile(demoStoreFile(<<>>, rd'.siteId,
                                                    entryFile(C36_Entry(now)),
                                                    now),
                                      rd'.siteId, rd'.path, now).ret
             /\ rd'.ret # None]_vars

\* C37: the btlExpiry of the metadata that getSiteMetadata returns is not in
\* the past, and no uploadFiles call ends with the error of the expiry check
\* it makes on the metadata it was given.
C37_ExpiryRepresentationsAgree ==
    /\ \A s \in Sites :
         LET metadata == getSiteMetadata(mirror, s, now)
         IN  metadata # None => ~ (now > metadata[1].btlExpiry)
    /\ \A p \in Procs : call[p].err # "Site has expired"

=============================================================================
